---- MODULE Spec2Model ----
(***************************************************************************)
(* Report persistence layer of kas-dev: backend selection at startup       *)
(* (PostgreSQL pool or per-month SQLite files), schema bootstrap, and the  *)
(* two store operations addReport / getReportsByMonth behind the HTTP      *)
(* routes POST /inputdata and GET /reports/:yearMonth.                     *)
(*                                                                         *)
(* Scheduling: one Node.js event loop.  Code between two awaits is one     *)
(* atomic step; every await of a pool checkout or of a client.query is a   *)
(* suspension point at which other requests may run.  better-sqlite3 is    *)
(* synchronous, so an operation on the SQLite engine is a single step.     *)
(*                                                                         *)
(* Timestamps are counted in days since 2024-01-01 00:00 local time.       *)
(* The clock is observed only by the Date.now() of addReport; successive   *)
(* readings never decrease and may be equal (two calls within the same     *)
(* millisecond).  The created_at column, filled by the engine and read by  *)
(* no code, is left out of the rows.                                       *)
(***************************************************************************)
EXTENDS Integers, Sequences, FiniteSets, Bags, TLC

\* ---------------------------------------------------------------- bounds
MaxCalls == 2      \* requests that may be in flight together
MaxOps == 3        \* requests accepted in one run
MaxTicks == 2      \* latest reading of the clock, counted from process start
MaxFaults == 1     \* engine calls the environment makes fail in one run
MaxDay == 430      \* latest timestamp the partition key is derived for alone

\* The clock at process start: 2024-12-31, so that a run crosses from a
\* two-digit month into a zero-padded one of the next year.
StartTimes == {365}

\* ------------------------------------------------------------- JS values
\* A JavaScript value of a request body: undefined, a number, a boolean or a
\* string.  All four shapes share one record layout.
JsUndefined == [t |-> "undefined", n |-> 0, b |-> FALSE, s |-> ""]
JsNumber(n) == [t |-> "number", n |-> n, b |-> FALSE, s |-> ""]
JsBoolean(b) == [t |-> "boolean", n |-> 0, b |-> b, s |-> ""]
JsString(s) == [t |-> "string", n |-> 0, b |-> FALSE, s |-> s]

\* ToBoolean: the truthiness used by `!x` and Boolean(x).
Truthy(v) ==
  CASE v.t = "undefined" -> FALSE
    [] v.t = "number" -> v.n # 0
    [] v.t = "boolean" -> v.b
    [] v.t = "string" -> v.s # ""

\* Decimal numerals parseInt can read back in this model.
Numerals == -9..99

\* parseInt(x): a number is converted to its decimal string and read back, a
\* string is read as a decimal numeral, anything else gives NaN.
parseInt(v) ==
  CASE v.t = "number" -> [nan |-> FALSE, n |-> v.n]
    [] v.t = "string" ->
         IF \E k \in Numerals : ToString(k) = v.s
         THEN [nan |-> FALSE, n |-> CHOOSE k \in Numerals : ToString(k) = v.s]
         ELSE [nan |-> TRUE, n |-> 0]
    [] OTHER -> [nan |-> TRUE, n |-> 0]

\* ------------------------------------------------------------- calendar
IsLeap(y) == (y % 4 = 0 /\ y % 100 # 0) \/ y % 400 = 0

\* Days of month m (0 = January, as Date.getMonth counts) of year y.
DaysInMonth(y, m) ==
  IF m = 1 THEN (IF IsLeap(y) THEN 29 ELSE 28)
  ELSE IF m \in {3, 5, 8, 10} THEN 30 ELSE 31

RECURSIVE DateFrom(_, _, _)
DateFrom(d, y, m) ==
  IF d < DaysInMonth(y, m) THEN [year |-> y, month |-> m]
  ELSE IF m = 11 THEN DateFrom(d - DaysInMonth(y, m), y + 1, 0)
  ELSE DateFrom(d - DaysInMonth(y, m), y, m + 1)

\* new Date(timestamp): the local calendar date of a timestamp.
NewDate(timestamp) == DateFrom(timestamp, 2024, 0)

RECURSIVE padStart(_, _, _)
padStart(s, targetLength, fill) ==
  IF Len(s) >= targetLength THEN s ELSE padStart(fill \o s, targetLength, fill)

\* As getMonthPartition, the month taken as Date.getMonth counts it.
getMonthPartitionZeroBased(timestamp) ==
  LET date == NewDate(timestamp)
      year == date.year
      month == padStart(ToString(date.month), 2, "0")
  IN  ToString(year) \o "-" \o month

getMonthPartition(timestamp) ==
  LET date == NewDate(timestamp)
      year == date.year
      month == padStart(ToString(date.month + 1), 2, "0")
  IN  ToString(year) \o "-" \o month

\* ------------------------------------------------------------ the state
VARIABLES
  DB_TYPE,        \* process.env.DB_TYPE || 'auto'
  phase,          \* "starting", "probing", "initialized", "listening", "exited"
  probe,          \* pool.connect() of initPostgres: "none", "pending", "ok", "failed"
  testClient,     \* the probe's client: "none", "held", "released"
  dbContext,      \* the dbContext object: type, instance, isReady
  globalSet,      \* TRUE once global.dbContext refers to dbContext
  now,            \* the latest reading of Date.now()
  pg,             \* the PostgreSQL database: catalog, rows of reports, id sequence
  poolOut,        \* clients of the pool currently checked out
  dbDirExists,    \* the DB directory of the SQLite files
  sqliteFiles,    \* partition |-> contents of reports_<partition>.db
  sqliteOpen,     \* better-sqlite3 handles opened and not closed
  calls,          \* the requests in flight, a bag of [pc, req, loc]: the await
                  \* a handler is suspended at, its request, and the locals
                  \* of its addReport / getReportsByMonth
  last,           \* the request answered last: request, locals, response
  accepted,       \* the id, database, submittime of every 200 of POST /inputdata
  ops,            \* requests accepted so far
  faults          \* engine calls failed by the environment so far

vars == <<DB_TYPE, phase, probe, testClient, dbContext, globalSet, now, pg,
          poolOut, dbDirExists, sqliteFiles, sqliteOpen, calls, last, accepted, ops,
          faults>>

\* ---------------------------------------------------- backend selection
InitialContext == [type |-> "null", instance |-> "null", isReady |-> FALSE]
PostgresContext == [type |-> "postgres", instance |-> "pool", isReady |-> TRUE]
SqliteContext == [type |-> "sqlite", instance |-> "sqliteMarker", isReady |-> TRUE]

\* As NeedsProbe, the sqlite branch probing like the others.
NeedsProbeAlways(dbType) == TRUE

\* Which branches of initDatabase call initPostgres.
NeedsProbe(dbType) == dbType # "sqlite"

\* initPostgres after pool.connect() settles: the test client is released.
InitPostgresClient(ok) == IF ok THEN "released" ELSE "none"

\* As InitDatabaseSettled, the postgres branch falling back like the auto
\* branch.
InitDatabaseAlwaysFallsBack(dbType, ok) ==
  IF ok THEN [exit |-> FALSE, ctx |-> PostgresContext]
  ELSE [exit |-> FALSE, ctx |-> SqliteContext]

\* As InitDatabaseSettled, the auto branch recording sqlite on both paths.
InitDatabaseKeepsSqlite(dbType, ok) ==
  IF dbType = "postgres"
  THEN IF ok THEN [exit |-> FALSE, ctx |-> PostgresContext]
       ELSE [exit |-> TRUE, ctx |-> InitialContext]
  ELSE [exit |-> FALSE, ctx |-> SqliteContext]

\* initDatabase once the probe has settled: the context recorded, or
\* process.exit(1).
InitDatabaseSettled(dbType, ok) ==
  IF dbType = "postgres"
  THEN IF ok THEN [exit |-> FALSE, ctx |-> PostgresContext]
       ELSE [exit |-> TRUE, ctx |-> InitialContext]
  ELSE IF ok THEN [exit |-> FALSE, ctx |-> PostgresContext]
       ELSE [exit |-> FALSE, ctx |-> SqliteContext]

NoRequest == [kind |-> "none", body |-> [class |-> JsUndefined, isadd |-> JsUndefined,
              changescore |-> JsUndefined, note |-> JsUndefined,
              submitter |-> JsUndefined], yearMonth |-> ""]
NoLocals == [submittime |-> 0, monthPartition |-> "", schemaAtIssue |-> FALSE,
             rival |-> FALSE, injected |-> FALSE, attempts |-> 0]
NoResponse == [status |-> 0, id |-> 0, database |-> "", submittime |-> 0,
               data |-> <<>>]

Init ==
  /\ DB_TYPE \in {"postgres", "sqlite", "auto"}
  /\ phase = "starting"
  /\ probe = "none"
  /\ testClient = "none"
  /\ dbContext = InitialContext
  /\ globalSet = FALSE
  /\ now \in StartTimes
  /\ pg = [tableExists |-> FALSE, indexExists |-> FALSE, rows |-> <<>>, nextId |-> 1]
  /\ poolOut = 0
  /\ dbDirExists = FALSE
  /\ sqliteFiles = << >>
  /\ sqliteOpen = 0
  /\ calls = EmptyBag
  /\ last = [req |-> NoRequest, loc |-> NoLocals, res |-> NoResponse]
  /\ accepted = {}
  /\ ops = 0
  /\ faults = 0

\* startApp calls initDatabase.  The sqlite branch has no await and runs to
\* the end of initDatabase; the other two suspend at pool.connect().
InitDatabaseBegin ==
  /\ phase = "starting"
  /\ IF NeedsProbe(DB_TYPE)
     THEN /\ probe' = "pending"
          /\ phase' = "probing"
          /\ UNCHANGED <<dbContext, globalSet, dbDirExists>>
     ELSE /\ dbContext' = SqliteContext
          /\ dbDirExists' = TRUE
          /\ globalSet' = TRUE
          /\ phase' = "initialized"
          /\ UNCHANGED probe
  /\ UNCHANGED <<DB_TYPE, testClient, now, pg, poolOut, sqliteFiles, sqliteOpen,
                 calls, last, accepted, ops, faults>>

\* pool.connect() of initPostgres settles and initDatabase runs to its end.
InitPostgresSettle ==
  /\ phase = "probing"
  /\ \E ok \in BOOLEAN :
       LET out == InitDatabaseSettled(DB_TYPE, ok) IN
       /\ probe' = IF ok THEN "ok" ELSE "failed"
       /\ testClient' = InitPostgresClient(ok)
       /\ poolOut' = IF testClient' = "held" THEN 1 ELSE 0
       /\ dbContext' = out.ctx
       /\ dbDirExists' = (out.ctx.type = "sqlite")
       /\ globalSet' = ~out.exit
       /\ phase' = IF out.exit THEN "exited" ELSE "initialized"
  /\ UNCHANGED <<DB_TYPE, now, pg, sqliteFiles, sqliteOpen, calls, last,
                 accepted, ops, faults>>

\* startApp resumes after `await initDatabase()` and calls app.listen.
Listen ==
  /\ phase = "initialized"
  /\ phase' = "listening"
  /\ UNCHANGED <<DB_TYPE, probe, testClient, dbContext, globalSet, now, pg,
                 poolOut, dbDirExists, sqliteFiles, sqliteOpen, calls,
                 last, accepted, ops, faults>>

\* ------------------------------------------------------ the HTTP routes
Body(class, isadd, changescore, note, submitter) ==
  [class |-> class, isadd |-> isadd, changescore |-> changescore,
   note |-> note, submitter |-> submitter]

\* Request bodies of POST /inputdata.
Bodies ==
  { Body(JsNumber(3), JsBoolean(TRUE), JsNumber(5), JsString("late"), JsString("teacherA")),
    Body(JsNumber(3), JsBoolean(TRUE), JsNumber(5), JsUndefined, JsString("teacherA")) }

\* Route parameters of GET /reports/:yearMonth: every month of the run, and
\* one month nothing is submitted in.
YearMonths ==
  {getMonthPartition(s + k) : s \in StartTimes, k \in 0..MaxTicks} \cup {"2099-01"}

\* Date.now(): the readings possible after the reading `prev`.
DateNow(prev) ==
  {t \in {prev, prev + 1} : \E s \in StartTimes : s <= t /\ t <= s + MaxTicks}

\* As MissingField, isadd tested by truthiness like the other fields.
MissingFieldByTruthiness(body) ==
  \/ ~Truthy(body.class)
  \/ ~Truthy(body.isadd)
  \/ ~Truthy(body.changescore)
  \/ ~Truthy(body.note)
  \/ ~Truthy(body.submitter)

\* The required-field test of POST /inputdata.
MissingField(body) ==
  \/ ~Truthy(body.class)
  \/ body.isadd.t = "undefined"
  \/ ~Truthy(body.changescore)
  \/ ~Truthy(body.note)
  \/ ~Truthy(body.submitter)

\* ------------------------------------------------------------ the store
getDbType == dbContext.type

\* A TEXT parameter.
TextOf(v) == IF v.t = "number" THEN ToString(v.n) ELSE v.s

\* As PgValues, submittime read again from the clock when the row is built.
PgValuesClockReread(data, submittime, monthPartition) ==
  [class |-> parseInt(data.class), isadd |-> JsBoolean(Truthy(data.isadd)),
   changescore |-> parseInt(data.changescore), submittime |-> now,
   note |-> TextOf(data.note), submitter |-> TextOf(data.submitter),
   month_partition |-> monthPartition]

\* The parameters of the INSERT on PostgreSQL.  isadd is written as the
\* JavaScript value a SELECT gives back for the column: a boolean here, the
\* number 1 / 0 on SQLite.
PgValues(data, submittime, monthPartition) ==
  [class |-> parseInt(data.class), isadd |-> JsBoolean(Truthy(data.isadd)),
   changescore |-> parseInt(data.changescore), submittime |-> submittime,
   note |-> TextOf(data.note), submitter |-> TextOf(data.submitter),
   month_partition |-> monthPartition]

\* The parameters of the INSERT on SQLite: isadd as 1 / 0.
SqliteValues(data, submittime, monthPartition) ==
  [class |-> parseInt(data.class),
   isadd |-> JsNumber(IF Truthy(data.isadd) THEN 1 ELSE 0),
   changescore |-> parseInt(data.changescore), submittime |-> submittime,
   note |-> TextOf(data.note), submitter |-> TextOf(data.submitter),
   month_partition |-> monthPartition]

\* NaN reaches an INTEGER NOT NULL column: the INSERT is refused.
Refused(values) == values.class.nan \/ values.changescore.nan

\* The row an INSERT stores: id from the sequence.
StoredRow(values, id) ==
  [id |-> id, class |-> values.class.n, isadd |-> values.isadd,
   changescore |-> values.changescore.n, submittime |-> values.submittime,
   note |-> values.note, submitter |-> values.submitter,
   month_partition |-> values.month_partition]

Range(seq) == {seq[i] : i \in 1..Len(seq)}

\* As OrderedDesc, ascending.
OrderedAsc(seq) ==
  \A i \in 1..(Len(seq) - 1) : seq[i].submittime <= seq[i + 1].submittime

\* ORDER BY submittime DESC.
OrderedDesc(seq) ==
  \A i \in 1..(Len(seq) - 1) : seq[i].submittime >= seq[i + 1].submittime

\* As WhereMonth, without the filter.
WhereAnyMonth(rows, yearMonth) == Range(rows)

\* WHERE month_partition = $1.
WhereMonth(rows, yearMonth) == {r \in Range(rows) : r.month_partition = yearMonth}

\* SELECT * FROM reports WHERE month_partition = $1 ORDER BY submittime DESC:
\* the sequences the engine may return (rows of equal submittime come in any
\* order).
SelectReports(rows, yearMonth) ==
  LET hit == WhereMonth(rows, yearMonth)
      n == Cardinality(hit)
  IN  {seq \in [1..n -> hit] :
         /\ \A i, j \in 1..n : i # j => seq[i] # seq[j]
         /\ OrderedDesc(seq)}

\* ---------------------------------------------------------------- SQLite
NewFile == [tableExists |-> FALSE, indexExists |-> FALSE, rows |-> <<>>, nextId |-> 1]

\* Calls of one SQLite operation that may fail.
SqliteFaults == {"none", "open", "createTable", "createIndex", "statement"}

\* CREATE TABLE IF NOT EXISTS, then the index unless sqlite_master lists it.
ensureSqliteTable(file) == [file EXCEPT !.tableExists = TRUE, !.indexExists = TRUE]

\* As getSqliteDatabase, new Database(dbPath) starting every file afresh.
getSqliteDatabaseTruncates(files, monthPartition, fault) ==
  IF fault = "open" THEN [opened |-> FALSE, threw |-> TRUE, files |-> files]
  ELSE
    LET created == [k \in DOMAIN files \cup {monthPartition} |->
                      IF k = monthPartition THEN NewFile ELSE files[k]]
    IN  IF fault = "createTable"
        THEN [opened |-> TRUE, threw |-> TRUE, files |-> created]
        ELSE IF fault = "createIndex"
        THEN [opened |-> TRUE, threw |-> TRUE,
              files |-> [created EXCEPT ![monthPartition].tableExists = TRUE]]
        ELSE [opened |-> TRUE, threw |-> FALSE,
              files |-> [created EXCEPT ![monthPartition] = ensureSqliteTable(@)]]

\* getSqliteDatabase: new Database(dbPath) creates the file when it is
\* missing, then ensureSqliteTable runs on the open handle.  `threw` with
\* `opened` is a return by exception after the handle was opened.
getSqliteDatabase(files, monthPartition, fault) ==
  IF fault = "open" THEN [opened |-> FALSE, threw |-> TRUE, files |-> files]
  ELSE
    LET created == IF monthPartition \in DOMAIN files THEN files
                   ELSE files @@ (monthPartition :> NewFile)
    IN  IF fault = "createTable"
        THEN [opened |-> TRUE, threw |-> TRUE, files |-> created]
        ELSE IF fault = "createIndex"
        THEN [opened |-> TRUE, threw |-> TRUE,
              files |-> [created EXCEPT ![monthPartition].tableExists = TRUE]]
        ELSE [opened |-> TRUE, threw |-> FALSE,
              files |-> [created EXCEPT ![monthPartition] = ensureSqliteTable(@)]]

\* A fault can only hit a call that is made: CREATE INDEX is skipped when the
\* index is there.
FaultApplies(files, monthPartition, fault) ==
  /\ fault # "none" => faults < MaxFaults
  /\ fault = "createIndex" =>
       ~(monthPartition \in DOMAIN files /\ files[monthPartition].indexExists)

\* Handles left open by a call of getSqliteDatabase followed by the
\* try / finally { db.close() } of its caller.
SqliteHandles(db) == IF db.opened /\ db.threw THEN sqliteOpen + 1 ELSE sqliteOpen

SchemaThere(files, monthPartition) ==
  monthPartition \in DOMAIN files /\ files[monthPartition].tableExists

\* ----------------------------------------------------------- operations
Request(kind, body, yearMonth) == [kind |-> kind, body |-> body, yearMonth |-> yearMonth]

Locals(submittime, monthPartition, schemaAtIssue, rival, injected) ==
  [submittime |-> submittime, monthPartition |-> monthPartition,
   schemaAtIssue |-> schemaAtIssue, rival |-> rival, injected |-> injected,
   attempts |-> 0]

\* The call issues its INSERT / SELECT.
Attempt(l) == [l EXCEPT !.attempts = @ + 1]

\* The response of a route: the status, and the body's id, database,
\* submittime (POST /inputdata) or data (GET /reports/:yearMonth).
Response(status, id, database, submittime, data) ==
  [status |-> status, id |-> id, database |-> database, submittime |-> submittime,
   data |-> data]

BadRequest == Response(400, 0, "", 0, <<>>)
ServerError == Response(500, 0, "", 0, <<>>)

\* The response reaches the client.
Sent(r, l, response) ==
  /\ last' = [req |-> r, loc |-> l, res |-> response]
  /\ accepted' =
       IF r.kind = "submit" /\ response.status = 200
       THEN accepted \cup {[id |-> response.id, database |-> response.database,
                            submittime |-> response.submittime]}
       ELSE accepted

\* A request is answered without having been suspended.
Answer(r, l, response) ==
  /\ Sent(r, l, response)
  /\ UNCHANGED calls

\* Whether call c is a Submit for the partition that found no schema when
\* it was issued.
FreshSubmit(c, monthPartition) ==
  c.req.kind = "submit" /\ c.loc.monthPartition = monthPartition /\ ~c.loc.schemaAtIssue

\* The calls in flight, those that a new Submit for the partition races with
\* marked as having a rival.
MarkRivals(bag, monthPartition, fresh) ==
  LET mark(c) == IF fresh /\ FreshSubmit(c, monthPartition)
                 THEN [c EXCEPT !.loc.rival = TRUE] ELSE c
      unmarked(d) == [d EXCEPT !.loc.rival = FALSE]
      old == BagToSet(bag)
  IN  [d \in {mark(c) : c \in old} |->
         (IF d \in old /\ mark(d) = d THEN bag[d] ELSE 0)
         + (IF unmarked(d) \in old /\ unmarked(d) # d /\ mark(unmarked(d)) = d
            THEN bag[unmarked(d)] ELSE 0)]

\* A Submit that finds no schema is issued while another such Submit for the
\* partition is in flight.
Rival(monthPartition, fresh) ==
  fresh /\ \E c \in BagToSet(calls) : FreshSubmit(c, monthPartition)

\* A request is suspended at its first await.
Suspend(r, l) ==
  /\ calls' = MarkRivals(calls, l.monthPartition, r.kind = "submit" /\ ~l.schemaAtIssue)
                 (+) SetToBag({[pc |-> "connect", req |-> r, loc |-> l]})
  /\ UNCHANGED <<last, accepted>>

\* The suspended call c resumes and suspends again at the await `at`.
Resume(c, l, at) ==
  /\ calls' = (calls (-) SetToBag({c})) (+) SetToBag({[pc |-> at, req |-> c.req, loc |-> l]})
  /\ UNCHANGED <<last, accepted>>

\* The suspended call c resumes and its request is answered.
Finish(c, l, response) ==
  /\ calls' = calls (-) SetToBag({c})
  /\ Sent(c.req, l, response)

\* As Admitted, app.listen not waiting for initDatabase.
AdmittedWhileStarting ==
  /\ phase \in {"starting", "probing", "initialized", "listening"}
  /\ BagCardinality(calls) < MaxCalls
  /\ ops < MaxOps
  /\ ops' = ops + 1

Admitted ==
  /\ phase = "listening"
  /\ BagCardinality(calls) < MaxCalls
  /\ ops < MaxOps
  /\ ops' = ops + 1

\* POST /inputdata: validation, then addReport up to its first await
\* (PostgreSQL) or to its end (SQLite).
PostInputdata(bodies) ==
  /\ Admitted
  /\ \E body \in bodies, fault \in SqliteFaults, submittime \in DateNow(now) :
       LET monthPartition == getMonthPartition(submittime)
           db == getSqliteDatabase(sqliteFiles, monthPartition, fault)
           values == SqliteValues(body, submittime, monthPartition)
           r == Request("submit", body, "")
       IN
       IF MissingField(body)
       THEN /\ fault = "none"
            /\ submittime = now
            /\ Answer(r, NoLocals, BadRequest)
            /\ UNCHANGED <<now, sqliteFiles, sqliteOpen, dbDirExists, faults>>
       ELSE IF getDbType = "postgres"
       THEN /\ fault = "none"
            /\ now' = submittime
            /\ Suspend(r, Locals(submittime, monthPartition, pg.tableExists,
                                 Rival(monthPartition, ~pg.tableExists), FALSE))
            /\ UNCHANGED <<sqliteFiles, sqliteOpen, dbDirExists, faults>>
       ELSE LET entered == Locals(submittime, monthPartition,
                                  SchemaThere(sqliteFiles, monthPartition),
                                  Rival(monthPartition,
                                        ~SchemaThere(sqliteFiles, monthPartition)),
                                  fault # "none")
                l == IF db.threw THEN entered ELSE Attempt(entered)
            IN
            /\ FaultApplies(sqliteFiles, monthPartition, fault)
            /\ now' = submittime
            /\ faults' = IF fault = "none" THEN faults ELSE faults + 1
            /\ dbDirExists' = TRUE
            /\ sqliteOpen' = SqliteHandles(db)
            /\ IF db.threw \/ fault = "statement" \/ Refused(values)
               THEN /\ sqliteFiles' = db.files
                    /\ Answer(r, l, ServerError)
               ELSE LET id == db.files[monthPartition].nextId IN
                    /\ sqliteFiles' =
                         [db.files EXCEPT
                            ![monthPartition].rows = Append(@, StoredRow(values, id)),
                            ![monthPartition].nextId = id + 1]
                    /\ Answer(r, l, Response(200, id, monthPartition, submittime, <<>>))
  /\ UNCHANGED <<DB_TYPE, phase, probe, testClient, dbContext, globalSet, pg,
                 poolOut>>

Inputdata == PostInputdata(Bodies)

\* GET /reports/:yearMonth: getReportsByMonth up to its first await
\* (PostgreSQL) or to its end (SQLite).
Reports ==
  /\ Admitted
  /\ \E yearMonth \in YearMonths, fault \in SqliteFaults :
       LET db == getSqliteDatabase(sqliteFiles, yearMonth, fault)
           r == Request("query", NoRequest.body, yearMonth)
       IN
       IF getDbType = "postgres"
       THEN /\ fault = "none"
            /\ Suspend(r, Locals(0, "", pg.tableExists, FALSE, FALSE))
            /\ UNCHANGED <<sqliteFiles, sqliteOpen, dbDirExists, faults>>
       ELSE LET entered == Locals(0, "", SchemaThere(sqliteFiles, yearMonth), FALSE,
                                  fault # "none")
                l == IF db.threw \/ ~db.files[yearMonth].tableExists
                     THEN entered ELSE Attempt(entered)
            IN
            /\ FaultApplies(sqliteFiles, yearMonth, fault)
            /\ faults' = IF fault = "none" THEN faults ELSE faults + 1
            /\ dbDirExists' = TRUE
            /\ sqliteOpen' = SqliteHandles(db)
            /\ sqliteFiles' = db.files
            /\ IF db.threw
               THEN Answer(r, l, ServerError)
               ELSE IF ~db.files[yearMonth].tableExists
               THEN Answer(r, l, Response(200, 0, "", 0, <<>>))
               ELSE IF fault = "statement"
               THEN Answer(r, l, ServerError)
               ELSE \E rows \in SelectReports(db.files[yearMonth].rows, yearMonth) :
                      Answer(r, l, Response(200, 0, "", 0, rows))
  /\ UNCHANGED <<DB_TYPE, phase, probe, testClient, dbContext, globalSet, now, pg,
                 poolOut>>

\* ------------------------------------------------------------ PostgreSQL
storeVars == <<DB_TYPE, phase, probe, testClient, dbContext, globalSet, now,
               dbDirExists, sqliteFiles, sqliteOpen, ops>>

\* An engine call fails for an external reason (connection loss, disk full)
\* when fault is TRUE.
Injected(fault) ==
  /\ fault => faults < MaxFaults
  /\ faults' = IF fault THEN faults + 1 ELSE faults

Hit(c, fault) == [c.loc EXCEPT !.injected = @ \/ fault]

\* client.release() of the finally blocks.
ClientRelease(n) == n - 1

\* The call ends by exception: finally releases the client, the route
\* answers 500.
Throw(c, l) ==
  /\ poolOut' = ClientRelease(poolOut)
  /\ Finish(c, l, ServerError)

\* As PgConnect, a failed checkout switching the process to SQLite.
PgConnectFallsBack(c) ==
  /\ c.pc = "connect"
  /\ \E fault \in BOOLEAN :
       /\ Injected(fault)
       /\ IF fault
          THEN /\ Finish(c, Hit(c, fault), ServerError)
               /\ dbContext' = SqliteContext
               /\ UNCHANGED poolOut
          ELSE /\ poolOut' = poolOut + 1
               /\ Resume(c, c.loc, "tableCheck")
               /\ UNCHANGED dbContext
  /\ UNCHANGED <<DB_TYPE, phase, probe, testClient, globalSet, now, dbDirExists,
                 sqliteFiles, sqliteOpen, ops, pg>>

\* await global.dbContext.instance.connect() settles.
PgConnect(c) ==
  /\ c.pc = "connect"
  /\ \E fault \in BOOLEAN :
       /\ Injected(fault)
       /\ IF fault
          THEN /\ Finish(c, Hit(c, fault), ServerError)
               /\ UNCHANGED poolOut
          ELSE /\ poolOut' = poolOut + 1
               /\ Resume(c, c.loc, "tableCheck")
  /\ UNCHANGED <<storeVars, pg>>

\* ensurePostgresTable: the information_schema lookup settles.
PgTableCheck(c) ==
  /\ c.pc = "tableCheck"
  /\ \E fault \in BOOLEAN :
       /\ Injected(fault)
       /\ IF fault
          THEN Throw(c, Hit(c, fault))
          ELSE /\ Resume(c, c.loc, IF pg.tableExists THEN "statement" ELSE "createTable")
               /\ UNCHANGED poolOut
  /\ UNCHANGED <<storeVars, pg>>

\* ensurePostgresTable: CREATE TABLE reports settles; it is an error when the
\* relation exists.
PgCreateTable(c) ==
  /\ c.pc = "createTable"
  /\ \E fault \in BOOLEAN :
       /\ Injected(fault)
       /\ IF fault \/ pg.tableExists
          THEN /\ Throw(c, Hit(c, fault))
               /\ UNCHANGED pg
          ELSE /\ pg' = [pg EXCEPT !.tableExists = TRUE]
               /\ Resume(c, c.loc, "createIndex")
               /\ UNCHANGED poolOut
  /\ UNCHANGED storeVars

\* ensurePostgresTable: CREATE INDEX reports_month_partition_idx settles.
PgCreateIndex(c) ==
  /\ c.pc = "createIndex"
  /\ \E fault \in BOOLEAN :
       /\ Injected(fault)
       /\ IF fault \/ pg.indexExists \/ ~pg.tableExists
          THEN /\ Throw(c, Hit(c, fault))
               /\ UNCHANGED pg
          ELSE /\ pg' = [pg EXCEPT !.indexExists = TRUE]
               /\ Resume(c, c.loc, "statement")
               /\ UNCHANGED poolOut
  /\ UNCHANGED storeVars

\* ensurePostgresTable run from the catalog `db` with no other call between
\* its statements and none of them failed from outside: the lookup, and
\* CREATE TABLE then CREATE INDEX when the lookup finds no table.
ensurePostgresTable(db) ==
  IF db.tableExists THEN [threw |-> FALSE, db |-> db]
  ELSE IF db.indexExists THEN [threw |-> TRUE, db |-> [db EXCEPT !.tableExists = TRUE]]
  ELSE [threw |-> FALSE, db |-> [db EXCEPT !.tableExists = TRUE, !.indexExists = TRUE]]

\* As PgInsert, a failed INSERT sent again.
PgInsertRetries(c) ==
  /\ c.pc = "statement"
  /\ c.req.kind = "submit"
  /\ \E fault \in BOOLEAN :
       LET values == PgValues(c.req.body, c.loc.submittime, c.loc.monthPartition) IN
       /\ Injected(fault)
       /\ IF fault \/ ~pg.tableExists \/ Refused(values)
          THEN /\ Resume(c, Attempt(Hit(c, fault)), "statement")
               /\ UNCHANGED <<pg, poolOut>>
          ELSE /\ pg' = [pg EXCEPT !.rows = Append(@, StoredRow(values, pg.nextId)),
                                   !.nextId = @ + 1]
               /\ poolOut' = ClientRelease(poolOut)
               /\ Finish(c, Attempt(c.loc),
                         Response(200, pg.nextId, c.loc.monthPartition,
                                  c.loc.submittime, <<>>))
  /\ UNCHANGED storeVars

\* addReport: INSERT ... RETURNING id settles.
PgInsert(c) ==
  /\ c.pc = "statement"
  /\ c.req.kind = "submit"
  /\ \E fault \in BOOLEAN :
       LET values == PgValues(c.req.body, c.loc.submittime, c.loc.monthPartition) IN
       /\ Injected(fault)
       /\ IF fault \/ ~pg.tableExists \/ Refused(values)
          THEN /\ Throw(c, Attempt(Hit(c, fault)))
               /\ UNCHANGED pg
          ELSE /\ pg' = [pg EXCEPT !.rows = Append(@, StoredRow(values, pg.nextId)),
                                   !.nextId = @ + 1]
               /\ poolOut' = ClientRelease(poolOut)
               /\ Finish(c, Attempt(c.loc),
                         Response(200, pg.nextId, c.loc.monthPartition,
                                  c.loc.submittime, <<>>))
  /\ UNCHANGED storeVars

\* getReportsByMonth: the SELECT settles.
PgSelect(c) ==
  /\ c.pc = "statement"
  /\ c.req.kind = "query"
  /\ \E fault \in BOOLEAN :
       /\ Injected(fault)
       /\ IF fault \/ ~pg.tableExists
          THEN Throw(c, Attempt(Hit(c, fault)))
          ELSE /\ poolOut' = ClientRelease(poolOut)
               /\ \E rows \in SelectReports(pg.rows, c.req.yearMonth) :
                    Finish(c, Attempt(c.loc), Response(200, 0, "", 0, rows))
  /\ UNCHANGED <<storeVars, pg>>

Next ==
  \/ InitDatabaseBegin
  \/ InitPostgresSettle
  \/ Listen
  \/ Inputdata
  \/ Reports
  \/ \E c \in BagToSet(calls) : PgConnect(c)
  \/ \E c \in BagToSet(calls) : PgTableCheck(c)
  \/ \E c \in BagToSet(calls) : PgCreateTable(c)
  \/ \E c \in BagToSet(calls) : PgCreateIndex(c)
  \/ \E c \in BagToSet(calls) : PgInsert(c)
  \/ \E c \in BagToSet(calls) : PgSelect(c)

Spec == Init /\ [][Next]_vars

\* ------------------------------------------------ one request at a time
\* A body with the five fields in the types of the data model.
WellFormed ==
  Body(JsNumber(3), JsBoolean(TRUE), JsNumber(5), JsString("late"), JsString("teacherA"))

Fields == {"class", "isadd", "changescore", "note", "submitter"}

\* Request bodies of POST /inputdata that differ from WellFormed in one
\* field: the field left out, the field an empty string, isadd false, class
\* or changescore zero.
SerialBodies ==
  {WellFormed}
  \cup {[WellFormed EXCEPT ![f] = v] : f \in Fields, v \in {JsUndefined, JsString("")}}
  \cup {[WellFormed EXCEPT !.isadd = JsBoolean(FALSE)],
        [WellFormed EXCEPT !.class = JsNumber(0)],
        [WellFormed EXCEPT !.changescore = JsNumber(0)]}

\* POST /inputdata from a client that sends its next request when the
\* previous one is answered.
SerialInputdata ==
  /\ calls = EmptyBag
  /\ PostInputdata(SerialBodies)

SerialNext ==
  \/ InitDatabaseBegin
  \/ InitPostgresSettle
  \/ Listen
  \/ SerialInputdata
  \/ \E c \in BagToSet(calls) : PgConnect(c)
  \/ \E c \in BagToSet(calls) : PgTableCheck(c)
  \/ \E c \in BagToSet(calls) : PgCreateTable(c)
  \/ \E c \in BagToSet(calls) : PgCreateIndex(c)
  \/ \E c \in BagToSet(calls) : PgInsert(c)

SerialSpec == Init /\ [][SerialNext]_vars

\* ------------------------------------------- the same calls on both engines
\* addReport on PostgreSQL run from the database `db` with no other call
\* between its statements and none of them failed from outside.
addReportPg(db, data, submittime) ==
  LET monthPartition == getMonthPartition(submittime)
      ensured == ensurePostgresTable(db)
      values == PgValues(data, submittime, monthPartition)
  IN  IF ensured.threw \/ Refused(values)
      THEN [threw |-> TRUE, db |-> ensured.db]
      ELSE [threw |-> FALSE,
            db |-> [ensured.db EXCEPT
                      !.rows = Append(@, StoredRow(values, ensured.db.nextId)),
                      !.nextId = @ + 1]]

\* addReport on SQLite with no call failed from outside.
addReportSqlite(files, data, submittime) ==
  LET monthPartition == getMonthPartition(submittime)
      db == getSqliteDatabase(files, monthPartition, "none")
      values == SqliteValues(data, submittime, monthPartition)
      id == db.files[monthPartition].nextId
  IN  IF db.threw \/ Refused(values)
      THEN [threw |-> TRUE, id |-> 0, files |-> db.files]
      ELSE [threw |-> FALSE, id |-> id,
            files |-> [db.files EXCEPT
                         ![monthPartition].rows = Append(@, StoredRow(values, id)),
                         ![monthPartition].nextId = id + 1]]

\* getReportsByMonth on PostgreSQL, run alone and unfailed: the database
\* after the call and the sequences it may return.
getReportsByMonthPg(db, yearMonth) ==
  LET ensured == ensurePostgresTable(db) IN
  [db |-> ensured.db, data |-> SelectReports(ensured.db.rows, yearMonth)]

\* getReportsByMonth on SQLite, unfailed.
getReportsByMonthSqlite(files, yearMonth) ==
  LET db == getSqliteDatabase(files, yearMonth, "none") IN
  [files |-> db.files,
   data |-> IF db.files[yearMonth].tableExists
            THEN SelectReports(db.files[yearMonth].rows, yearMonth)
            ELSE {<<>>}]

\* Request bodies sent to both installations.
TwinBodies ==
  {WellFormed, [WellFormed EXCEPT !.isadd = JsBoolean(FALSE)],
   [WellFormed EXCEPT !.note = JsUndefined]}

\* Two installations of the program that have finished initDatabase, one
\* on PostgreSQL (its database is pg) and one on SQLite (its files are
\* sqliteFiles), with clocks that agree.  A client sends every request to
\* both and waits for both answers; last is the answer of the SQLite
\* installation.  The variables of the startup of one process keep their
\* initial values.
TwinInit ==
  /\ DB_TYPE = "auto"
  /\ phase = "listening"
  /\ probe = "none"
  /\ testClient = "none"
  /\ dbContext = InitialContext
  /\ globalSet = TRUE
  /\ now \in StartTimes
  /\ pg = [tableExists |-> FALSE, indexExists |-> FALSE, rows |-> <<>>, nextId |-> 1]
  /\ poolOut = 0
  /\ dbDirExists = TRUE
  /\ sqliteFiles = << >>
  /\ sqliteOpen = 0
  /\ calls = EmptyBag
  /\ last = [req |-> NoRequest, loc |-> NoLocals, res |-> NoResponse]
  /\ accepted = {}
  /\ ops = 0
  /\ faults = 0

\* POST /inputdata on both installations.
TwinInputdata ==
  /\ Admitted
  /\ \E body \in TwinBodies, submittime \in DateNow(now) :
       LET network == addReportPg(pg, body, submittime)
           embedded == addReportSqlite(sqliteFiles, body, submittime)
           monthPartition == getMonthPartition(submittime)
           r == Request("submit", body, "")
           l == Attempt(Locals(submittime, monthPartition,
                               SchemaThere(sqliteFiles, monthPartition), FALSE, FALSE))
       IN
       IF MissingField(body)
       THEN /\ submittime = now
            /\ Answer(r, NoLocals, BadRequest)
            /\ UNCHANGED <<now, pg, sqliteFiles>>
       ELSE /\ now' = submittime
            /\ pg' = network.db
            /\ sqliteFiles' = embedded.files
            /\ IF embedded.threw
               THEN Answer(r, l, ServerError)
               ELSE Answer(r, l, Response(200, embedded.id, monthPartition, submittime,
                                          <<>>))
  /\ UNCHANGED <<DB_TYPE, phase, probe, testClient, dbContext, globalSet,
                 poolOut, dbDirExists, sqliteOpen, faults>>

\* GET /reports/:yearMonth on both installations.
TwinReports ==
  /\ Admitted
  /\ \E yearMonth \in YearMonths :
       LET network == getReportsByMonthPg(pg, yearMonth)
           embedded == getReportsByMonthSqlite(sqliteFiles, yearMonth)
           r == Request("query", NoRequest.body, yearMonth)
           l == Attempt(Locals(0, "", SchemaThere(sqliteFiles, yearMonth), FALSE, FALSE))
       IN
       /\ pg' = network.db
       /\ sqliteFiles' = embedded.files
       /\ \E rows \in embedded.data : Answer(r, l, Response(200, 0, "", 0, rows))
  /\ UNCHANGED <<DB_TYPE, phase, probe, testClient, dbContext, globalSet, now,
                 poolOut, dbDirExists, sqliteOpen, faults>>

TwinNext == TwinInputdata \/ TwinReports

TwinSpec == TwinInit /\ [][TwinNext]_vars

\* ------------------------------------------- the partition key by itself
\* Timestamps from 2024-01-01 to early March 2025: a leap February, every
\* month number, a change of year.
Timestamps == 0..MaxDay

\* Days between two successive readings of the clock: up to a month, or
\* about a year.
Elapsed == (0..31) \cup (360..370)

DeriveInit ==
  /\ DB_TYPE = "auto"
  /\ phase = "starting"
  /\ probe = "none"
  /\ testClient = "none"
  /\ dbContext = InitialContext
  /\ globalSet = FALSE
  /\ now \in Timestamps
  /\ pg = [tableExists |-> FALSE, indexExists |-> FALSE, rows |-> <<>>, nextId |-> 1]
  /\ poolOut = 0
  /\ dbDirExists = FALSE
  /\ sqliteFiles = << >>
  /\ sqliteOpen = 0
  /\ calls = EmptyBag
  /\ last = [req |-> NoRequest, loc |-> NoLocals, res |-> NoResponse]
  /\ accepted = {}
  /\ ops = 0
  /\ faults = 0

\* The first two lines of addReport, submittime = Date.now() and
\* monthPartition = getMonthPartition(submittime), on the reading `now`; the
\* clock then moves on.
Derive ==
  /\ last' = [last EXCEPT !.loc = Locals(now, getMonthPartition(now), FALSE, FALSE, FALSE)]
  /\ now' \in {t \in Timestamps : t - now \in Elapsed}
  /\ UNCHANGED <<DB_TYPE, phase, probe, testClient, dbContext, globalSet, pg,
                 poolOut, dbDirExists, sqliteFiles, sqliteOpen, calls, accepted,
                 ops, faults>>

DeriveNext == Derive

DeriveSpec == DeriveInit /\ [][DeriveNext]_vars

\* ------------------------------------------------------------ properties
\* Every report stored by either engine.
AllReports ==
  Range(pg.rows) \cup UNION {Range(sqliteFiles[k].rows) : k \in DOMAIN sqliteFiles}

\* What a caller is told about a stored report.
Receipt(r) == [id |-> r.id, database |-> r.month_partition, submittime |-> r.submittime]

\* Requests answered so far.
Answered == ops - BagCardinality(calls)

Initialized == phase \in {"initialized", "listening"}

LastSubmit == last.req.kind = "submit" /\ ~MissingField(last.req.body)
LastQuery == last.req.kind = "query"

\* C1: a Submit issued for a partition without schema while another such
\* Submit for the same partition is in flight, and whose engine calls are not
\* failed from outside, is answered 200 and its report is stored (so that a
\* later query of the partition finds it).  This holds for both Submits of
\* the pair: each is marked as the rival of the other.
C1_ConcurrentSubmitsToNewPartitionSucceed ==
  (LastSubmit /\ last.loc.rival /\ ~last.loc.injected) =>
    /\ last.res.status = 200
    /\ \E r \in AllReports :
         /\ Receipt(r) = [id |-> last.res.id, database |-> last.res.database,
                          submittime |-> last.res.submittime]
         /\ r.month_partition = last.loc.monthPartition

\* C2: when no request is in flight, no pooled client is checked out and no
\* SQLite handle is open.
C2_NoHandleHeldAfterOperations ==
  calls = EmptyBag => poolOut = 0 /\ sqliteOpen = 0

\* C3: every stored report's month_partition is getMonthPartition of its own
\* submittime, and on SQLite the report lies in the file of that partition.
C3_PartitionMatchesSubmitTime ==
  /\ \A r \in Range(pg.rows) : r.month_partition = getMonthPartition(r.submittime)
  /\ \A k \in DOMAIN sqliteFiles : \A r \in Range(sqliteFiles[k].rows) :
       r.month_partition = getMonthPartition(r.submittime) /\ r.month_partition = k

C3_Witness ==
  Cardinality({r.month_partition : r \in AllReports}) >= 2

\* C4: with DB_TYPE = postgres and a failed probe the process has exited:
\* no engine is recorded, the context is not published, the server never
\* listens and no request is ever accepted.
C4_PinnedNetworkProbeFailureIsFatal ==
  (DB_TYPE = "postgres" /\ probe = "failed") =>
    /\ phase = "exited"
    /\ dbContext = InitialContext
    /\ ~globalSet
    /\ ops = 0 /\ calls = EmptyBag

C4_Witness == DB_TYPE = "postgres" /\ probe = "failed" /\ phase = "exited"

\* C5: in auto mode, once initDatabase has completed, the engine recorded is
\* postgres exactly when the probe succeeded (the test client released, the
\* pool kept as the instance), and sqlite when the probe failed.
C5_AutoModeFollowsProbe ==
  (DB_TYPE = "auto" /\ Initialized) =>
    /\ probe \in {"ok", "failed"}
    /\ dbContext.type = "postgres" <=> probe = "ok"
    /\ probe = "ok" => testClient = "released" /\ dbContext.instance = "pool"
    /\ probe = "failed" => dbContext = SqliteContext /\ dbDirExists
    /\ dbContext.isReady /\ globalSet

C5_Witness ==
  /\ DB_TYPE = "auto" /\ phase = "listening" /\ probe = "ok"
  /\ dbContext = PostgresContext /\ poolOut = 0 /\ ops = 0

\* C6: with DB_TYPE = sqlite no probe is ever started and no client of a
\* pool ever exists, and once initDatabase has completed the engine recorded
\* is sqlite.
C6_PinnedEmbeddedSkipsProbe ==
  DB_TYPE = "sqlite" =>
    /\ probe = "none" /\ testClient = "none" /\ poolOut = 0
    /\ phase # "probing"
    /\ Initialized => dbContext = SqliteContext

C6_Witness ==
  DB_TYPE = "sqlite" /\ phase = "listening" /\ last.res.status = 200

\* C7: once initDatabase has completed, no step changes the dbContext.
C7_ContextImmutableAfterInit ==
  [][Initialized => dbContext' = dbContext /\ globalSet' = globalSet]_vars

C7_Witness ==
  /\ phase = "listening" /\ dbContext = PostgresContext
  /\ Answered >= 2 /\ last.res.status = 500

\* C8 as claimed: the rows of a query come strictly descending by submittime.
C8_StrictlyDescending ==
  (LastQuery /\ last.res.status = 200) =>
    \A i, j \in 1..Len(last.res.data) :
      i < j => last.res.data[i].submittime > last.res.data[j].submittime

\* C8 as amended: the rows of a query come in non-increasing order of
\* submittime; rows of equal submittime are adjacent, in either order.
C8_NonIncreasing ==
  (LastQuery /\ last.res.status = 200) =>
    \A i, j \in 1..Len(last.res.data) :
      i < j => last.res.data[i].submittime >= last.res.data[j].submittime

C8_Witness ==
  /\ LastQuery /\ last.res.status = 200
  /\ Len(last.res.data) >= 2
  /\ last.res.data[1].submittime > last.res.data[2].submittime

\* C9: a query of a partition no report is stored in, whose engine calls are
\* not failed from outside, is answered 200 with no rows.
C9_EmptyPartitionQueryIsEmptyNotError ==
  (LastQuery /\ ~last.loc.injected
     /\ \A r \in AllReports : r.month_partition # last.req.yearMonth) =>
    last.res.status = 200 /\ last.res.data = <<>>

\* C10: when a query is answered 200, its rows are, each once, the reports
\* of its partition that a Submit was answered 200 for, and no others.
C10_QueryReturnsExactlyThePartition ==
  [][(Answered' > Answered /\ last'.req.kind = "query" /\ last'.res.status = 200) =>
       /\ {Receipt(r) : r \in Range(last'.res.data)}
            = {a \in accepted' : a.database = last'.req.yearMonth}
       /\ Range(last'.res.data) \subseteq AllReports'
       /\ Len(last'.res.data) = Cardinality(Range(last'.res.data))
       /\ Len(last'.res.data) = Cardinality({Receipt(r) : r \in Range(last'.res.data)})]_vars

C10_Witness ==
  /\ LastQuery /\ last.res.status = 200 /\ Len(last.res.data) >= 1
  /\ \E a \in accepted : a.database # last.req.yearMonth
  /\ Cardinality(accepted) > Len(last.res.data)

\* The rows of the engine in use that a 200 of POST /inputdata names by its
\* id and database.
StoredAs(res) ==
  IF getDbType = "postgres"
  THEN {r \in Range(pg.rows) : r.id = res.id /\ r.month_partition = res.database}
  ELSE IF res.database \in DOMAIN sqliteFiles
  THEN {r \in Range(sqliteFiles[res.database].rows) : r.id = res.id}
  ELSE {}

\* C11: a Submit whose isadd is false (the other fields well-formed, no
\* engine call failed from outside) is answered 200 and its report is stored
\* with a falsy isadd, the number 0 on SQLite and the boolean false on
\* PostgreSQL; a Submit without isadd is answered 400.
C11_FalseIsAddStoredAbsentIsAddRejected ==
  last.req.kind = "submit" =>
    /\ (last.req.body = [WellFormed EXCEPT !.isadd = JsBoolean(FALSE)]
         /\ ~last.loc.injected) =>
          /\ last.res.status = 200
          /\ StoredAs(last.res) # {}
          /\ \A r \in StoredAs(last.res) :
                r.isadd = IF getDbType = "postgres" THEN JsBoolean(FALSE) ELSE JsNumber(0)
    /\ last.req.body.isadd = JsUndefined => last.res.status = 400

C11_Witness ==
  /\ last.req.body = [WellFormed EXCEPT !.isadd = JsBoolean(FALSE)]
  /\ last.res.status = 200
  /\ getDbType = "sqlite"
  /\ \E r \in StoredAs(last.res) : r.isadd = JsNumber(0)
  /\ \E t \in accepted : t.id # last.res.id \/ t.database # last.res.database

\* A required field is missing or is the empty string.
MissingOrEmpty(body) ==
  \E f \in Fields : body[f] = JsUndefined \/ body[f] = JsString("")

\* C12: a Submit with a required field missing or empty is answered 400 in
\* the step it arrives in: it is never suspended at an engine call, and the
\* step leaves both stores, the pool, the SQLite handles and directory and
\* the accepted reports as they were.
C12_MissingOrEmptyFieldRejectedWithoutEngineCall ==
  [][/\ \A c \in BagToSet(calls') :
          c.req.kind = "submit" => ~MissingOrEmpty(c.req.body)
     /\ (Answered' > Answered /\ last'.req.kind = "submit"
          /\ MissingOrEmpty(last'.req.body)) =>
           /\ last'.res.status = 400
           /\ ops' = ops + 1
           /\ UNCHANGED <<pg, poolOut, dbDirExists, sqliteFiles, sqliteOpen,
                          accepted, faults>>]_vars

\* C13: with no call in flight, the schema bootstrap invoked twice in
\* succession for one target (the reports table of PostgreSQL, the file of a
\* month on SQLite) raises no error either time, the second invocation leaves
\* the schema as the first left it, and that schema has the reports table
\* and the partition index.
C13_BootstrapTwiceInSuccession ==
  (phase = "listening" /\ calls = EmptyBag) =>
    IF getDbType = "postgres"
    THEN LET first == ensurePostgresTable(pg)
             second == ensurePostgresTable(first.db)
         IN  /\ ~first.threw /\ ~second.threw
             /\ second.db = first.db
             /\ first.db.tableExists /\ first.db.indexExists
    ELSE \A monthPartition \in YearMonths :
           LET first == getSqliteDatabase(sqliteFiles, monthPartition, "none")
               second == getSqliteDatabase(first.files, monthPartition, "none")
           IN  /\ ~first.threw /\ ~second.threw
               /\ second.files = first.files
               /\ first.files[monthPartition].tableExists
               /\ first.files[monthPartition].indexExists

IsPrefix(a, b) == Len(a) <= Len(b) /\ \A i \in 1..Len(a) : a[i] = b[i]

\* C14: no step removes or alters a stored report: the rows of the reports
\* table of PostgreSQL and of every SQLite file stay, in place and
\* unchanged, and no SQLite file disappears; rows are only added.
C14_ReportsImmutable ==
  [][/\ IsPrefix(pg.rows, pg.rows')
     /\ \A k \in DOMAIN sqliteFiles :
          /\ k \in DOMAIN sqliteFiles'
          /\ IsPrefix(sqliteFiles[k].rows, sqliteFiles'[k].rows)]_vars

C14_Witness ==
  /\ Cardinality(AllReports) >= 2
  /\ LastQuery
  /\ last.res.status = 200
  /\ Len(last.res.data) >= 1

\* C15: a call whose INSERT or SELECT was failed by the engine is answered
\* 500, and no call, failed or not, sends its INSERT or SELECT more than
\* once.
C15_EngineFailureReportedWithoutRetry ==
  /\ \A c \in BagToSet(calls) : c.loc.attempts = 0
  /\ last.loc.attempts <= 1
  /\ (last.loc.attempts >= 1 /\ last.loc.injected) => last.res.status = 500

C15_Witness ==
  /\ last.req.kind = "submit"
  /\ last.loc.attempts = 1
  /\ last.loc.injected
  /\ last.res.status = 500
  /\ AllReports # {}

\* The calendar, written out: the first day of every month from January
\* 2024 to April 2025, counted in days since 2024-01-01.
MonthStarts ==
  <<0, 31, 60, 91, 121, 152, 182, 213, 244, 274, 305, 335, 366, 397, 425, 456>>

\* The calendar month containing timestamp t, counted from January 2024 = 0.
CalendarMonth(t) ==
  (CHOOSE i \in 1..(Len(MonthStarts) - 1) : MonthStarts[i] <= t /\ t < MonthStarts[i + 1]) - 1

\* Four-digit year, hyphen, two-digit month of calendar month k.
KeyOf(k) ==
  <<"2024", "2025">>[(k \div 12) + 1] \o "-"
  \o <<"01", "02", "03", "04", "05", "06", "07", "08", "09", "10", "11", "12">>[(k % 12) + 1]

\* C16: the partition key derived for a timestamp is the four-digit year, a
\* hyphen and the zero-padded two-digit month of the calendar month that
\* contains the timestamp, and the keys derived for two timestamps are equal
\* exactly when the timestamps lie in the same calendar month (so the same
\* timestamp always gets the same key).
C16_PartitionKeyIsCalendarMonth ==
  [][/\ last'.loc.submittime = now
     /\ last'.loc.monthPartition = KeyOf(CalendarMonth(now))
     /\ last.loc.monthPartition # "" =>
          ((last'.loc.monthPartition = last.loc.monthPartition)
             <=> (CalendarMonth(now) = CalendarMonth(last.loc.submittime)))]_vars

C16_Witness ==
  /\ last.loc.submittime = 59
  /\ last.loc.monthPartition = "2024-02"
  /\ now = 425

\* C17: whenever an invocation of the schema bootstrap has returned without
\* error, its target has the reports table and the partition index: on
\* PostgreSQL for every call that stands at its INSERT or SELECT, whatever
\* other bootstrap invocations it was interleaved with; on SQLite for the
\* file of the call answered last, if that call got as far as its statement.
C17_BootstrapReturnEnsuresTableAndIndex ==
  /\ \A c \in BagToSet(calls) :
       c.pc = "statement" => pg.tableExists /\ pg.indexExists
  /\ (getDbType = "sqlite" /\ last.loc.attempts >= 1) =>
       LET target == IF last.req.kind = "query" THEN last.req.yearMonth
                     ELSE last.loc.monthPartition
       IN  /\ target \in DOMAIN sqliteFiles
           /\ sqliteFiles[target].tableExists
           /\ sqliteFiles[target].indexExists

\* A returned row without its id.
WithoutId(r) ==
  [class |-> r.class, isadd |-> r.isadd, changescore |-> r.changescore,
   submittime |-> r.submittime, note |-> r.note, submitter |-> r.submitter,
   month_partition |-> r.month_partition]

\* The sequences a query may return, ids left out.
Returned(data) == {[i \in 1..Len(seq) |-> WithoutId(seq[i])] : seq \in data}

\* C18: after the same requests sent to an installation on PostgreSQL and
\* to one on SQLite, a query for any month returns on both the same rows
\* with the same field values, isadd included, apart from the id.
C18_QueryRowsBackendAgnostic ==
  \A yearMonth \in YearMonths :
    Returned(getReportsByMonthPg(pg, yearMonth).data)
      = Returned(getReportsByMonthSqlite(sqliteFiles, yearMonth).data)

\* C19: a request is accepted only in a state in which initDatabase has
\* completed: the context records its engine and is ready, and
\* global.dbContext refers to it; and no request is in flight or answered
\* in any other state.
C19_NoRequestBeforeInitialization ==
  [][/\ ops' # ops =>
          /\ phase = "listening"
          /\ globalSet
          /\ dbContext.isReady
          /\ dbContext.type \in {"postgres", "sqlite"}
     /\ (calls' # EmptyBag \/ last' # last) => (ops' > 0 /\ globalSet')]_vars

C19_Witness ==
  /\ DB_TYPE = "auto"
  /\ probe = "failed"
  /\ getDbType = "sqlite"
  /\ LastSubmit
  /\ last.res.status = 200

\* The five fields in the types of the data model: integer class, boolean
\* isadd, integer changescore, non-empty note and submitter.
OfDataModel(body) ==
  /\ body.class.t = "number"
  /\ body.isadd.t = "boolean"
  /\ body.changescore.t = "number"
  /\ body.note.t = "string" /\ body.note.s # ""
  /\ body.submitter.t = "string" /\ body.submitter.s # ""

\* C20: a Submit whose five fields have the types of the data model is not
\* answered 400 and, unless an engine call before it is failed from outside,
\* sends its INSERT; and a Submit is answered 400 only if one of its
\* required fields is missing or empty.
C20_WellTypedSubmitPassesValidation ==
  last.req.kind = "submit" =>
    /\ OfDataModel(last.req.body) =>
         /\ last.res.status # 400
         /\ ~last.loc.injected => last.loc.attempts = 1
    /\ last.res.status = 400 => MissingOrEmpty(last.req.body)

====
